---- MODULE Spec2Model ----
(***************************************************************************)
(* Model of rel-rs: Rel<P, I>, a relative pointer that stores the offset   *)
(* from its own address to its target in an integer type I and forwards    *)
(* ownership to a pointer kind P (src/src/lib.rs, src/src/traits.rs).      *)
(*                                                                         *)
(* Addresses are PtrBits wide and all pointer arithmetic wraps at that     *)
(* width, as wrapping_sub / wrapping_offset do.  The heap is abstracted to *)
(* two monotone counters per address: handles acquired (Box::new, Rc::new, *)
(* Rc::clone) and handles released (drop of a Box, drop of an Rc).         *)
(***************************************************************************)
EXTENDS Integers, Sequences, FiniteSets

\* ---------------------------------------------------------------- bounds
PtrBits == 4
NarrowBits == 3
MaxOps == 3
MaxArithOps == 2
GarbageSpan == 1

RECURSIVE Pow2(_)
Pow2(n) == IF n = 0 THEN 1 ELSE 2 * Pow2(n - 1)

AddrSpace == Pow2(PtrBits)
Addr == 0 .. (AddrSpace - 1)
NullAddr == 0
IsizeMin == -Pow2(PtrBits - 1)
IsizeMax == Pow2(PtrBits - 1) - 1

Slots == {1, 2}

\* ------------------------------------------------------- offset types (I)
\* I: PrimInt.  Five representatives: a signed and an unsigned type narrower
\* than isize (i8, u8, ...), isize itself (the default), and a signed and an
\* unsigned type wider than isize (i128, u128).
IntTypes == {"inarrow", "unarrow", "isize", "iwide", "uwide"}

IMin(t) ==
    CASE t = "inarrow" -> -Pow2(NarrowBits - 1)
      [] t = "unarrow" -> 0
      [] t = "isize" -> IsizeMin
      [] t = "iwide" -> -Pow2(PtrBits)
      [] t = "uwide" -> 0

IMax(t) ==
    CASE t = "inarrow" -> Pow2(NarrowBits - 1) - 1
      [] t = "unarrow" -> Pow2(NarrowBits) - 1
      [] t = "isize" -> IsizeMax
      [] t = "iwide" -> Pow2(PtrBits) - 1
      [] t = "uwide" -> Pow2(PtrBits + 1) - 1

IRange(t) == IMin(t) .. IMax(t)

\* Option<T> of the checked integer conversions.
SomeInt(x) == [some |-> TRUE, val |-> x]
NoInt == [some |-> FALSE, val |-> 0]

\* I::from that lets the value one past MAX through.
IFromOffByOne(t, x) == IF x \in IMin(t) .. (IMax(t) + 1) THEN SomeInt(x) ELSE NoInt

\* I::from(offset): NumCast from isize, None when the value does not fit I.
IFrom(t, x) == IF x \in IRange(t) THEN SomeInt(x) ELSE NoInt

\* self.offset.to_isize(): None when the value does not fit isize.
ToIsize(t, o) == IF o \in IsizeMin .. IsizeMax THEN SomeInt(o) ELSE NoInt

\* `p as isize` of an address: two's complement reinterpretation.
AsIsize(a) == IF a > IsizeMax THEN a - AddrSpace ELSE a

\* A subtraction that does not wrap at the pointer width.
PlainSub(x, y) == x - y

\* isize::wrapping_sub
WrappingSub(x, y) == ((x - y - IsizeMin) % AddrSpace) + IsizeMin

\* offset_to with the operands of the subtraction exchanged.
OffsetToSwapped(t, from, to) ==
    LET offset == WrappingSub(AsIsize(from), AsIsize(to))
        conv == IFrom(t, offset)
    IN IF conv.some
       THEN [ok |-> TRUE, offset |-> conv.val, err |-> 0]
       ELSE [ok |-> FALSE, offset |-> 0, err |-> offset]

\* Rel::offset_to, the non-nightly branch: Ok(offset) or Err(OutOfRange(delta)).
OffsetTo(t, from, to) ==
    LET offset == WrappingSub(AsIsize(to), AsIsize(from))
        conv == IFrom(t, offset)
    IN IF conv.some
       THEN [ok |-> TRUE, offset |-> conv.val, err |-> 0]
       ELSE [ok |-> FALSE, offset |-> 0, err |-> offset]

\* An offset that saturates at the ends of the address space.
SaturatingOffset(a, i) ==
    IF a + i < 0 THEN 0 ELSE IF a + i >= AddrSpace THEN AddrSpace - 1 ELSE a + i

\* <*const u8>::wrapping_offset
WrappingOffset(a, i) == (a + i + AddrSpace) % AddrSpace

\* Rel::get_raw: the record's own address plus the stored offset; unwrap()
\* panics when the offset does not convert to isize.
GetRawAt(t, recAddr, o) ==
    LET i == ToIsize(t, o)
    IN IF i.some
       THEN [panic |-> FALSE, addr |-> WrappingOffset(recAddr, i.val)]
       ELSE [panic |-> TRUE, addr |-> NullAddr]

\* ------------------------------------------------------ pointer kinds (P)
\* raw: *const T / *mut T;  ref: &T / &mut T / NonNull<T>;  box: Box<T>;
\* rc: Rc<T> / Arc<T>;  optbox, optrc: Option<Box<T>>, Option<Rc<T>>.
Kinds == {"raw", "ref", "box", "rc", "optbox", "optrc"}

PointerNullable(k) == k \in {"raw", "optbox", "optrc"}
IsOption(k) == k \in {"optbox", "optrc"}
Owning(k) == k \in {"box", "optbox"}
Shared(k) == k \in {"rc", "optrc"}
Releases(k) == Owning(k) \/ Shared(k)

NoneV == [tag |-> "none", addr |-> NullAddr]
PtrV(a) == [tag |-> "ptr", addr |-> a]
SomeV(a) == [tag |-> "some", addr |-> a]
Values == {NoneV} \cup {PtrV(a) : a \in Addr} \cup {SomeV(a) : a \in Addr}

\* Pointer::from_raw
FromRaw(k, a) ==
    IF IsOption(k)
    THEN IF a = NullAddr THEN NoneV ELSE SomeV(a)
    ELSE PtrV(a)

\* Pointer::into_raw
IntoRaw(k, v) == IF v.tag = "none" THEN NullAddr ELSE v.addr

\* PointerNullable::get_null
GetNull(k) == IF IsOption(k) THEN NoneV ELSE FromRaw(k, NullAddr)

\* A drop that releases nothing.
DropValueForgets(k, rel, v) == rel

\* Dropping a pointer value: a Box frees its payload, an Rc gives up one
\* strong reference, None and the borrowing kinds do nothing.
DropValue(k, rel, v) ==
    IF Releases(k) /\ v.tag # "none"
    THEN [rel EXCEPT ![v.addr] = @ + 1]
    ELSE rel

\* Clone::clone of a pointer value: an Rc gains one strong reference on the
\* same payload, a Box duplicates the payload into a new allocation at
\* `fresh`, raw pointers and references are copied, None clones to None.
CloneValue(k, v, fresh) ==
    IF v.tag = "none" \/ ~Owning(k) THEN v ELSE [v EXCEPT !.addr = fresh]

CloneAcquires(k, acq, v, fresh) ==
    IF v.tag = "none" \/ ~Releases(k)
    THEN acq
    ELSE [acq EXCEPT ![CloneValue(k, v, fresh).addr] = @ + 1]

\* ------------------------------------------------------------------ state
VARIABLES
    kind,       \* P, fixed for a run
    ity,        \* I, fixed for a run
    raddr,      \* slot -> address of the storage of the record
    st,         \* slot -> "uninit" (no live Rel in the storage) | "live"
    off,        \* slot -> the offset field (the bytes in the storage)
    origin,     \* slot -> what wrote the offset: "none" | "new" | "take" |
                \*         "set" (a non-null value) | "setnull" (a null value)
    acquired,   \* address -> handles ever created for the payload there
    released,   \* address -> handles ever released for the payload there
    held,       \* pointer values handed back to the caller, not yet dropped
    last,       \* the last operation, its inputs, its result, the state before
    nops,       \* operations performed
    limit       \* operations a run of the model performs at most

vars == <<kind, ity, raddr, st, off, origin, acquired, released, held, last, nops, limit>>

Strong(a) == acquired[a] - released[a]

\* self.get_raw() of the record in slot r, for an offset field o
GetRawOf(r, o) == GetRawAt(ity, raddr[r], o)
GetRaw(r) == GetRawOf(r, off[r])

\* The record of an operation: its inputs, its result, and the offsets,
\* decoded addresses and counters as they were before it.
OpRecord(name, r, src, ok, err, arg, ret, d, acqB) ==
    [op |-> name, slot |-> r, src |-> src, ok |-> ok, err |-> err,
     arg |-> arg, ret |-> ret, d |-> d,
     prevOff |-> off, prevSt |-> st, prevOrigin |-> origin,
     prevRaw |-> [x \in Slots |-> GetRawAt(ity, raddr[x], off[x]).addr],
     relBefore |-> released, acqBefore |-> acqB, heldBefore |-> held]

\* What a storage holds before a Rel is constructed in it is not defined;
\* the model lets it be any offset within GarbageSpan of zero.
Garbage(t) == {o \in IRange(t) : o >= -GarbageSpan /\ o <= GarbageSpan}

ZeroCounts == [a \in Addr |-> 0]

InitRecord ==
    [op |-> "init", slot |-> 0, src |-> 0, ok |-> TRUE, err |-> 0,
     arg |-> NoneV, ret |-> NoneV, d |-> 0,
     prevOff |-> off, prevSt |-> st, prevOrigin |-> origin,
     prevRaw |-> [x \in Slots |-> GetRawAt(ity, raddr[x], off[x]).addr],
     relBefore |-> ZeroCounts, acqBefore |-> ZeroCounts, heldBefore |-> <<>>]
SlotAddrs == [r \in Slots |-> (AddrSpace \div 2) + (r - 1)]

Init ==
    /\ kind \in Kinds
    /\ ity \in IntTypes
    /\ raddr = SlotAddrs
    /\ st = [r \in Slots |-> "uninit"]
    /\ origin = [r \in Slots |-> "none"]
    /\ off \in [Slots -> Garbage(ity)]
    /\ acquired = ZeroCounts
    /\ released = ZeroCounts
    /\ held = <<>>
    /\ nops = 0
    /\ limit = MaxOps
    /\ last = InitRecord

\* The pointer values a caller can pass for kind k: any address for a raw
\* pointer, any non-null address for a reference, a fresh allocation
\* (Box::new, Rc::new) for the owning and shared kinds, None for an Option.
ArgValues(k) ==
    CASE k = "raw" -> {PtrV(a) : a \in Addr}
      [] k = "ref" -> {PtrV(a) : a \in Addr \ {NullAddr}}
      [] k \in {"box", "rc"} ->
            {PtrV(a) : a \in {x \in Addr \ {NullAddr} : Strong(x) = 0}}
      [] OTHER ->
            {NoneV} \cup {SomeV(a) : a \in {x \in Addr \ {NullAddr} : Strong(x) = 0}}

\* Box::new / Rc::new: the allocation behind a fresh argument value.
Allocate(k, acq, v) ==
    IF Releases(k) /\ v.tag # "none" THEN [acq EXCEPT ![v.addr] = @ + 1] ELSE acq

\* Drop for Rel, on the offset field o of slot r: the pointer value is
\* reconstructed from get_raw() and dropped.
DropRelAt(r, o, rel) == DropValue(kind, rel, FromRaw(kind, GetRawOf(r, o).addr))

\* set_raw that drops the previous contents before the range check.
SetRawCoreDropsFirst(r, v, offF, relF) ==
    LET p == IntoRaw(kind, v)
        res == OffsetTo(ity, raddr[r], p)
    IN IF res.ok
       THEN [ok |-> TRUE, err |-> 0,
             off |-> [offF EXCEPT ![r] = res.offset],
             released |-> DropRelAt(r, offF[r], relF)]
       ELSE [ok |-> FALSE, err |-> res.err, off |-> offF,
             released |-> DropRelAt(r, offF[r], relF)]

\* set_raw that stores the truncated delta when the range check fails.
SetRawCoreTruncates(r, v, offF, relF) ==
    LET p == IntoRaw(kind, v)
        res == OffsetTo(ity, raddr[r], p)
        width == IMax(ity) - IMin(ity) + 1
    IN IF res.ok
       THEN [ok |-> TRUE, err |-> 0,
             off |-> [offF EXCEPT ![r] = res.offset],
             released |-> DropRelAt(r, offF[r], relF)]
       ELSE [ok |-> FALSE, err |-> res.err,
             off |-> [offF EXCEPT ![r] = ((res.err - IMin(ity)) % width) + IMin(ity)],
             released |-> relF]

\* set_raw that drops the value it was given when the range check fails.
SetRawCoreDropsArg(r, v, offF, relF) ==
    LET p == IntoRaw(kind, v)
        res == OffsetTo(ity, raddr[r], p)
    IN IF res.ok
       THEN [ok |-> TRUE, err |-> 0,
             off |-> [offF EXCEPT ![r] = res.offset],
             released |-> DropRelAt(r, offF[r], relF)]
       ELSE [ok |-> FALSE, err |-> res.err, off |-> offF,
             released |-> DropValue(kind, relF, v)]

\* set_raw that clears the offset when the range check fails.
SetRawCoreClears(r, v, offF, relF) ==
    LET p == IntoRaw(kind, v)
        res == OffsetTo(ity, raddr[r], p)
    IN IF res.ok
       THEN [ok |-> TRUE, err |-> 0,
             off |-> [offF EXCEPT ![r] = res.offset],
             released |-> DropRelAt(r, offF[r], relF)]
       ELSE [ok |-> FALSE, err |-> res.err,
             off |-> [offF EXCEPT ![r] = 0], released |-> relF]

\* The body of Rel::set_raw(this, p) on the offsets offF and release counts
\* relF.  `*this = Self { .. }` is an assignment to a place of a type that
\* implements Drop: the previous contents of *this are dropped first.
SetRawCore(r, v, offF, relF) ==
    LET p == IntoRaw(kind, v)
        res == OffsetTo(ity, raddr[r], p)
    IN IF res.ok
       THEN [ok |-> TRUE, err |-> 0,
             off |-> [offF EXCEPT ![r] = res.offset],
             released |-> DropRelAt(r, offF[r], relF)]
       ELSE [ok |-> FALSE, err |-> res.err, off |-> offF, released |-> relF]

\* The note of what wrote the offset of slot r, after set_raw of value v.
SetOrigin(r, v, ok) ==
    IF ok
    THEN [origin EXCEPT ![r] = IF IntoRaw(kind, v) = NullAddr THEN "setnull" ELSE "set"]
    ELSE origin

Empty(r) == st[r] = "live" /\ PointerNullable(kind) /\ off[r] = 0

\* unsafe Rel::set_raw(this, p), called as documented on a storage that holds
\* no value yet: uninitialized, or Empty.  acqBefore counts the allocation of
\* the argument, which the caller made before the call.
SetRaw(r, v) ==
    /\ st[r] = "uninit" \/ Empty(r)
    /\ v \in ArgValues(kind)
    /\ ~GetRaw(r).panic
    /\ LET res == SetRawCore(r, v, off, released)
           acq == Allocate(kind, acquired, v)
       IN /\ off' = res.off
          /\ origin' = SetOrigin(r, v, res.ok)
          /\ released' = res.released
          /\ acquired' = acq
          /\ st' = IF res.ok THEN [st EXCEPT ![r] = "live"] ELSE st
          /\ last' = OpRecord("set_raw", r, 0, res.ok, res.err, v, NoneV, 0, acq)
    /\ nops < limit
    /\ nops' = nops + 1
    /\ UNCHANGED <<limit, kind, ity, raddr, held>>

\* Rel::replace(&mut self, p) -> (P, Result<(), OutOfRange<I>>)
Replace(r, v) ==
    /\ st[r] = "live"
    /\ v \in ArgValues(kind)
    /\ ~GetRaw(r).panic
    /\ LET inner == FromRaw(kind, GetRaw(r).addr)
           res == SetRawCore(r, v, off, released)
           acq == Allocate(kind, acquired, v)
       IN /\ off' = res.off
          /\ origin' = SetOrigin(r, v, res.ok)
          /\ released' = res.released
          /\ acquired' = acq
          /\ held' = Append(held, inner)
          /\ last' = OpRecord("replace", r, 0, res.ok, res.err, v, inner, 0, acq)
    /\ nops < limit
    /\ nops' = nops + 1
    /\ UNCHANGED <<limit, kind, ity, raddr, st>>

\* Rel::new(), placed in the storage of slot r
New(r) ==
    /\ PointerNullable(kind)
    /\ st[r] = "uninit"
    /\ st' = [st EXCEPT ![r] = "live"]
    /\ off' = [off EXCEPT ![r] = 0]
    /\ origin' = [origin EXCEPT ![r] = "new"]
    /\ last' = OpRecord("new", r, 0, TRUE, 0, NoneV, NoneV, 0, acquired)
    /\ nops < limit
    /\ nops' = nops + 1
    /\ UNCHANGED <<limit, kind, ity, raddr, acquired, released, held>>

\* Rel::take(&mut self) -> P.  `*self = Self::new()` drops the previous
\* contents of *self before the null record is written.
Take(r) ==
    /\ PointerNullable(kind)
    /\ st[r] = "live"
    /\ ~GetRaw(r).panic
    /\ LET inner == FromRaw(kind, GetRaw(r).addr)
       IN /\ released' = DropRelAt(r, off[r], released)
          /\ off' = [off EXCEPT ![r] = 0]
          /\ origin' = [origin EXCEPT ![r] = "take"]
          /\ held' = Append(held, inner)
          /\ last' = OpRecord("take", r, 0, TRUE, 0, NoneV, inner, 0, acquired)
    /\ nops < limit
    /\ nops' = nops + 1
    /\ UNCHANGED <<limit, kind, ity, raddr, st, acquired>>

\* Drop for Rel: the record in slot r goes out of scope.  The bytes of the
\* storage keep the offset.
DropRel(r) ==
    /\ st[r] = "live"
    /\ ~GetRaw(r).panic
    /\ released' = DropRelAt(r, off[r], released)
    /\ st' = [st EXCEPT ![r] = "uninit"]
    /\ origin' = [origin EXCEPT ![r] = "none"]
    /\ last' = OpRecord("drop", r, 0, TRUE, 0, NoneV,
                        FromRaw(kind, GetRaw(r).addr), 0, acquired)
    /\ nops < limit
    /\ nops' = nops + 1
    /\ UNCHANGED <<limit, kind, ity, raddr, off, acquired, held>>

\* The address a Box clone is allocated at; the other kinds allocate nothing.
FreshChoices(k, v) ==
    IF Owning(k) /\ v.tag # "none"
    THEN {x \in Addr \ {NullAddr} : Strong(x) = 0}
    ELSE {NullAddr}

\* unsafe Rel::clone_into_raw(&self, target): with_inner(Clone::clone), whose
\* temporary is forgotten, then set_raw(target, p).
CloneIntoRaw(s, t, fresh) ==
    /\ s # t
    /\ st[s] = "live"
    /\ st[t] = "uninit" \/ Empty(t)
    /\ ~GetRaw(s).panic /\ ~GetRaw(t).panic
    /\ LET inner == FromRaw(kind, GetRaw(s).addr)
           p == CloneValue(kind, inner, fresh)
           acq == CloneAcquires(kind, acquired, inner, fresh)
           res == SetRawCore(t, p, off, released)
       IN /\ fresh \in FreshChoices(kind, inner)
          /\ off' = res.off
          /\ origin' = SetOrigin(t, p, res.ok)
          /\ released' = res.released
          /\ acquired' = acq
          /\ st' = IF res.ok THEN [st EXCEPT ![t] = "live"] ELSE st
          /\ last' = OpRecord("clone_into_raw", t, s, res.ok, res.err, p, NoneV, 0, acquired)
    /\ nops < limit
    /\ nops' = nops + 1
    /\ UNCHANGED <<limit, kind, ity, raddr, held>>

\* Rel::clone_into(&self, target): target.take(), whose result is dropped at
\* the end of the statement, then clone_into_raw(self, target).
CloneInto(s, t, fresh) ==
    /\ PointerNullable(kind)
    /\ s # t
    /\ st[s] = "live" /\ st[t] = "live"
    /\ ~GetRaw(s).panic /\ ~GetRaw(t).panic
    /\ LET taken == FromRaw(kind, GetRaw(t).addr)
           rel1 == DropRelAt(t, off[t], released)
           off1 == [off EXCEPT ![t] = 0]
           rel2 == DropValue(kind, rel1, taken)
           inner == FromRaw(kind, GetRawOf(s, off1[s]).addr)
           p == CloneValue(kind, inner, fresh)
           acq == CloneAcquires(kind, acquired, inner, fresh)
           res == SetRawCore(t, p, off1, rel2)
       IN /\ fresh \in FreshChoices(kind, inner)
          /\ off' = res.off
          /\ origin' = IF res.ok THEN SetOrigin(t, p, TRUE)
                        ELSE [origin EXCEPT ![t] = "take"]
          /\ released' = res.released
          /\ acquired' = acq
          /\ last' = OpRecord("clone_into", t, s, res.ok, res.err, p, taken, 0, acquired)
    /\ nops < limit
    /\ nops' = nops + 1
    /\ UNCHANGED <<limit, kind, ity, raddr, st, held>>

\* unsafe Rel::clone_from_raw(this, source): source.clone_into_raw(this)
CloneFromRaw(t, s, fresh) == CloneIntoRaw(s, t, fresh)

\* Rel::clone_from(&mut self, source): source.clone_into(self)
CloneFrom(t, s, fresh) == CloneInto(s, t, fresh)

\* The caller drops a value that replace or take handed back.
DropHeld(i) ==
    /\ i \in 1 .. Len(held)
    /\ released' = DropValue(kind, released, held[i])
    /\ held' = [j \in 1 .. (Len(held) - 1) |-> IF j < i THEN held[j] ELSE held[j + 1]]
    /\ last' = OpRecord("drop_value", 0, 0, TRUE, 0, NoneV, held[i], 0, acquired)
    /\ nops < limit
    /\ nops' = nops + 1
    /\ UNCHANGED <<limit, kind, ity, raddr, st, off, origin, acquired>>

\* The block that holds the records and their targets is moved as a whole
\* by d bytes (copied, mapped at another base): every address is translated,
\* the bytes of the records are not touched.
Translate(a, d) == (a + d) % AddrSpace

Relocate(d) ==
    /\ d \in 1 .. (AddrSpace - 1)
    /\ \A r \in Slots : Translate(raddr[r], d) # NullAddr
    /\ \A a \in Addr : acquired[a] > 0 => Translate(a, d) # NullAddr
    /\ raddr' = [r \in Slots |-> Translate(raddr[r], d)]
    /\ acquired' = [a \in Addr |-> acquired[Translate(a, AddrSpace - d)]]
    /\ released' = [a \in Addr |-> released[Translate(a, AddrSpace - d)]]
    /\ held' = [j \in 1 .. Len(held) |->
                  IF held[j].addr = NullAddr THEN held[j]
                  ELSE [held[j] EXCEPT !.addr = Translate(@, d)]]
    /\ last' = OpRecord("relocate", 0, 0, TRUE, 0, NoneV, NoneV, d, acquired)
    /\ nops < limit
    /\ nops' = nops + 1
    /\ UNCHANGED <<limit, kind, ity, st, off, origin>>

\* ---------------------------------------------------------- specifications
\* Spec: the lifecycle of two records whose targets are allocated at the
\* addresses of HeapAddrs (one of them the address of the first record: a
\* payload that starts with the record that points to it).
HeapStride == 4
HeapAddrs == {a \in Addr \ {NullAddr} : a % HeapStride = 0}
HeapValues == {v \in Values : v.addr \in HeapAddrs \cup {NullAddr}}

Next ==
    \/ \E r \in Slots : \E v \in HeapValues : SetRaw(r, v)
    \/ \E r \in Slots : \E v \in HeapValues : Replace(r, v)
    \/ \E r \in Slots : New(r)
    \/ \E r \in Slots : Take(r)
    \/ \E r \in Slots : DropRel(r)
    \/ \E s, t \in Slots : \E f \in HeapAddrs \cup {NullAddr} : CloneIntoRaw(s, t, f)
    \/ \E s, t \in Slots : \E f \in HeapAddrs \cup {NullAddr} : CloneInto(s, t, f)
    \/ \E s, t \in Slots : \E f \in HeapAddrs \cup {NullAddr} : CloneFromRaw(t, s, f)
    \/ \E s, t \in Slots : \E f \in HeapAddrs \cup {NullAddr} : CloneFrom(t, s, f)
    \/ \E i \in 1 .. MaxOps : DropHeld(i)

Spec == Init /\ [][Next]_vars

\* SpecArith: one record at any address, any target address, and relocation.
InitArith ==
    /\ kind \in Kinds
    /\ ity \in IntTypes
    /\ \E base \in Addr \ {NullAddr, AddrSpace - 1} :
          raddr = [r \in Slots |-> base + (r - 1)]
    /\ st = [r \in Slots |-> "uninit"]
    /\ origin = [r \in Slots |-> "none"]
    /\ off = [r \in Slots |-> 0]
    /\ acquired = ZeroCounts
    /\ released = ZeroCounts
    /\ held = <<>>
    /\ nops = 0
    /\ limit = MaxArithOps
    /\ last = InitRecord

NextArith ==
    \/ \E v \in Values : SetRaw(1, v)
    \/ \E d \in Addr : Relocate(d)

SpecArith == InitArith /\ [][NextArith]_vars

\* ------------------------------------------------------------------ claims
\* The address a pointer value passed to the last operation converts to, the
\* address of the record it was applied to, and the two readings of "the
\* delta": the difference of the addresses as integers, and the difference
\* offset_to computes, which wraps at the pointer width.
LastTarget == IntoRaw(kind, last.arg)
LastRecord == raddr[last.slot]
MathDelta == LastTarget - LastRecord
WrapDelta == WrappingSub(AsIsize(LastTarget), AsIsize(LastRecord))

\* An offset type with negative values.
SignedInt(t) == IMin(t) < 0

\* C1: round trip.  When the signed delta target - record is representable
\* in I, set_raw returns Ok and get_raw on the record then returns exactly
\* the target address.  The signed delta is the pointer-width signed
\* difference; for a signed I the difference of the two addresses as plain
\* numbers serves as well.
C1_RoundTrip ==
    ( /\ last.op = "set_raw"
      /\ \/ WrapDelta \in IRange(ity)
         \/ SignedInt(ity) /\ MathDelta \in IRange(ity) )
        => /\ last.ok
           /\ ~GetRaw(last.slot).panic
           /\ GetRaw(last.slot).addr = LastTarget

C1_Witness ==
    /\ last.op = "set_raw"
    /\ ity = "inarrow"
    /\ MathDelta \in IRange(ity)
    /\ MathDelta < 0
    /\ last.ok
    /\ GetRaw(last.slot).addr = LastTarget

\* C2: range boundaries.  With delta the full-width signed difference that
\* offset_to computes, (to as isize).wrapping_sub(from as isize): set_raw
\* succeeds at delta = MAX and delta = MIN of I, fails with OutOfRange
\* carrying the delta itself at MAX + 1 and MIN - 1, stores exactly the delta
\* whenever it succeeds and stores nothing when it fails.
C2_RangeBoundaries ==
    last.op = "set_raw"
        => /\ WrapDelta \in {IMin(ity), IMax(ity)} => last.ok
           /\ WrapDelta \in {IMin(ity) - 1, IMax(ity) + 1}
                 => (~last.ok /\ last.err = WrapDelta)
           /\ last.ok => (WrapDelta \in IRange(ity) /\ off[last.slot] = WrapDelta)
           /\ ~last.ok => (WrapDelta \notin IRange(ity) /\ last.err = WrapDelta
                           /\ off[last.slot] = last.prevOff[last.slot])

C2_Witness ==
    /\ last.op = "set_raw"
    /\ ity = "inarrow"
    /\ WrapDelta = IMax(ity) + 1
    /\ ~last.ok
    /\ last.err = IMax(ity) + 1

\* The record the last operation was applied to was populated before it: it
\* was live and its offset had been written by set_raw of a non-null value.
OldTarget == last.prevRaw[last.slot]
WasPopulated ==
    /\ last.prevSt[last.slot] = "live"
    /\ last.prevOrigin[last.slot] = "set"

ReleasedBy(a) == released[a] - last.relBefore[a]

\* C3: replace hands the old value over without releasing it.  After a
\* successful replace on a populated record of an owning or shared kind the
\* old target has been released zero times by the operation, the value
\* returned is the one for the old target, and the record decodes to the
\* new target.
C3_ReplaceKeepsOld ==
    (last.op = "replace" /\ last.ok /\ Releases(kind) /\ WasPopulated)
        => /\ last.ret = FromRaw(kind, OldTarget)
           /\ ReleasedBy(OldTarget) = 0
           /\ GetRaw(last.slot).addr = LastTarget

\* C4: take is an exchange with empty.  On a populated record of a nullable
\* kind take() returns the value for the current target, leaves offset 0
\* and does not release the target.
C4_TakeExchanges ==
    (last.op = "take" /\ WasPopulated)
        => /\ last.ret = FromRaw(kind, OldTarget)
           /\ off[last.slot] = 0
           /\ ReleasedBy(OldTarget) = 0

\* C5: ownership forwarding.  Dropping a populated record of an owning (or
\* shared) kind releases its target exactly once and nothing else; dropping
\* a record of a borrowing kind releases nothing.
C5_DropForwards ==
    (last.op = "drop" /\ WasPopulated)
        => released = IF Releases(kind)
                      THEN [last.relBefore EXCEPT ![OldTarget] = @ + 1]
                      ELSE last.relBefore

C5_Witness ==
    /\ last.op = "drop"
    /\ WasPopulated
    /\ kind = "box"
    /\ acquired[OldTarget] = 1
    /\ ReleasedBy(OldTarget) = 1
    /\ Strong(OldTarget) = 0

\* C6: null default.  A record made by new() has offset 0, and take() on a
\* record made by new(), or left by an earlier take(), returns the null
\* value of the kind and leaves the offset at 0.
C6_NullDefault ==
    /\ last.op = "new" => off[last.slot] = 0
    /\ (last.op = "take" /\ last.prevOrigin[last.slot] \in {"new", "take"})
          => (last.ret = GetNull(kind) /\ off[last.slot] = 0)

\* C7: clone semantics for shared kinds.  Cloning a populated record of a
\* shared kind into a second record that holds no value leaves both
\* decoding to the payload, whose reference count has grown by exactly one;
\* dropping either record afterwards takes exactly one off the count.
StrongBefore(a) == last.acqBefore[a] - last.relBefore[a]
SourceTarget == last.prevRaw[last.src]

C7_CloneShared ==
    /\ ( /\ last.op \in {"clone_into_raw", "clone_into"}
         /\ last.ok
         /\ Shared(kind)
         /\ last.prevSt[last.src] = "live"
         /\ last.prevOrigin[last.src] = "set"
         /\ last.prevOrigin[last.slot] \in {"none", "new", "take"} )
          => /\ GetRaw(last.src).addr = SourceTarget
             /\ GetRaw(last.slot).addr = SourceTarget
             /\ Strong(SourceTarget) = StrongBefore(SourceTarget) + 1
    /\ (last.op = "drop" /\ Shared(kind) /\ WasPopulated)
          => Strong(OldTarget) = StrongBefore(OldTarget) - 1

\* C8: a failed replace still returns the old value.  For a populated
\* record and a new value whose delta does not fit I, replace returns the
\* value for the previous target together with OutOfRange, and releases
\* nothing.
C8_FailedReplaceReturnsOld ==
    (last.op = "replace" /\ WasPopulated /\ WrapDelta \notin IRange(ity))
        => /\ ~last.ok
           /\ last.err = WrapDelta
           /\ last.ret = FromRaw(kind, OldTarget)
           /\ held = Append(last.heldBefore, last.ret)
           /\ released = last.relBefore

C8_Witness ==
    /\ last.op = "replace"
    /\ WasPopulated
    /\ kind = "box"
    /\ ~last.ok
    /\ Strong(OldTarget) = 1
    /\ held = <<PtrV(OldTarget)>>

\* C9: en-masse relocation.  After the record and its target are both
\* translated by d, the offset bytes untouched, get_raw returns the
\* translated target.
C9_Relocation ==
    last.op = "relocate"
        => \A r \in Slots :
              st[r] = "live"
                 => /\ off[r] = last.prevOff[r]
                    /\ GetRaw(r).addr = Translate(last.prevRaw[r], last.d)

C9_Witness ==
    /\ last.op = "relocate"
    /\ st[1] = "live"
    /\ off[1] < 0
    /\ raddr[1] < last.d
    /\ GetRaw(1).addr = Translate(last.prevRaw[1], last.d)

\* C10: a failed initialization changes nothing.  When set_raw on an Empty
\* record returns OutOfRange the offset stays 0, nothing is released, and
\* the value passed in is leaked: its payload keeps the one handle it was
\* allocated with and no one holds it.
WasEmpty ==
    /\ last.prevSt[last.slot] = "live"
    /\ PointerNullable(kind)
    /\ last.prevOrigin[last.slot] \in {"new", "take"}
    /\ last.prevOff[last.slot] = 0

C10_FailedSetRawFrame ==
    (last.op = "set_raw" /\ ~last.ok /\ WasEmpty)
        => /\ off = last.prevOff
           /\ st = last.prevSt
           /\ released = last.relBefore
           /\ (Releases(kind) /\ last.arg.tag # "none")
                 => (ReleasedBy(LastTarget) = 0 /\ acquired = last.acqBefore)
           /\ held = last.heldBefore

C10_Witness ==
    /\ last.op = "set_raw"
    /\ ~last.ok
    /\ WasEmpty
    /\ kind = "optbox"
    /\ Strong(LastTarget) = 1
    /\ off[last.slot] = 0

\* C11: a failed clone_into.  When the clone of the source's value is out of
\* range for the target record, clone_into returns OutOfRange, the target
\* is left with offset 0, the source keeps its offset, and the clone is
\* leaked: it was acquired, it is released by no one and held by no one; for
\* a shared kind the payload of the source keeps one more strong reference.
C11_FailedCloneInto ==
    (last.op = "clone_into" /\ WrapDelta \notin IRange(ity))
        => /\ ~last.ok
           /\ last.err = WrapDelta
           /\ off[last.slot] = 0
           /\ off[last.src] = last.prevOff[last.src]
           /\ st = last.prevSt
           /\ held = last.heldBefore
           /\ (Releases(kind) /\ last.arg.tag # "none")
                 => /\ acquired[LastTarget] = last.acqBefore[LastTarget] + 1
                    /\ ReleasedBy(LastTarget) = 0
           /\ (Shared(kind) /\ last.arg.tag # "none")
                 => /\ LastTarget = SourceTarget
                    /\ Strong(SourceTarget) = StrongBefore(SourceTarget) + 1

C11_Witness ==
    /\ last.op = "clone_into"
    /\ ~last.ok
    /\ kind = "optrc"
    /\ last.prevOrigin[last.src] = "set"
    /\ off[last.slot] = 0
    /\ Strong(SourceTarget) = 2

\* C12: the null sentinel.  A live record of a nullable kind decodes to the
\* null address exactly when its stored offset is 0, and initializing a
\* record with the null value of the kind leaves offset 0.
C12_NullSentinel ==
    \A r \in Slots :
        (st[r] = "live" /\ PointerNullable(kind))
            => /\ (GetRaw(r).addr = NullAddr) <=> (off[r] = 0)
               /\ origin[r] = "setnull" => off[r] = 0

\* C13: clone_into releases the previous value of the target exactly once.
\* On a populated target of a nullable owning or shared kind the old payload
\* of the target is released one time by the call and nothing else is.
C13_CloneIntoReleasesOnce ==
    (last.op = "clone_into" /\ Releases(kind) /\ WasPopulated)
        => released = [last.relBefore EXCEPT ![OldTarget] = @ + 1]

\* The handles on payload a that someone still owns: the values the caller
\* holds and the live records that were populated with a value.
HeldHandles(h, a) ==
    Cardinality({i \in DOMAIN h : h[i].tag # "none" /\ h[i].addr = a})

OutstandingBefore(a) ==
    HeldHandles(last.heldBefore, a)
    + Cardinality({r \in Slots : /\ last.prevSt[r] = "live"
                                 /\ last.prevOrigin[r] = "set"
                                 /\ last.prevRaw[r] = a})

Outstanding(a) ==
    HeldHandles(held, a)
    + Cardinality({r \in Slots : /\ st[r] = "live"
                                 /\ origin[r] = "set"
                                 /\ GetRaw(r).addr = a})

\* The acquisitions of payload a before the operation: the value that is
\* passed to set_raw or replace is allocated by the caller for the call and
\* is not counted.
AcquiredBefore(a) ==
    IF /\ last.op \in {"set_raw", "replace"}
       /\ Releases(kind)
       /\ last.arg.tag # "none"
       /\ last.arg.addr = a
    THEN last.acqBefore[a] - 1
    ELSE last.acqBefore[a]

\* An operation of the claim's sequences: every operation except an
\* initialization of a storage that holds no record yet.
OnRecord ==
    \/ last.op \in {"new", "drop_value"}
    \/ /\ last.op \in {"set_raw", "replace", "take", "clone_into", "drop"}
       /\ last.prevSt[last.slot] = "live"

\* C14: no double release.  For owning and shared kinds, an operation on a
\* record that starts with every payload released no more often than it was
\* acquired, and with no more outstanding handles on a payload than the
\* payload has strong references, ends the same way: nothing is released
\* twice and nothing still held by the caller or by a live record has had
\* its payload released.
C14_NoDoubleRelease ==
    ( /\ Releases(kind)
      /\ OnRecord
      /\ \A a \in Addr : /\ last.relBefore[a] <= AcquiredBefore(a)
                         /\ OutstandingBefore(a)
                                <= AcquiredBefore(a) - last.relBefore[a] )
        => \A a \in Addr : /\ released[a] <= acquired[a]
                           /\ Outstanding(a) <= Strong(a)

\* C15: dropping an Empty record is inert.  Destroying a record of a
\* nullable kind that new() created or take() emptied (offset 0) rebuilds
\* the null value of the kind and releases nothing at any address.
C15_DropEmptyInert ==
    (last.op = "drop" /\ WasEmpty)
        => /\ last.ret = GetNull(kind)
           /\ released = last.relBefore

\* C16 as stated: after a failed replace on a populated record, get_raw on
\* the record returns neither the old target nor the new target.
C16_Original ==
    (last.op = "replace" /\ ~last.ok /\ WasPopulated)
        => /\ GetRaw(last.slot).addr # OldTarget
           /\ GetRaw(last.slot).addr # LastTarget

\* C16: after a failed replace on a populated record the stored offset is
\* the one from before the call: get_raw on the record still returns the old
\* target, whose value the caller now holds as well, and not the new target.
C16_FailedReplaceKeepsOffset ==
    (last.op = "replace" /\ ~last.ok /\ WasPopulated)
        => /\ off[last.slot] = last.prevOff[last.slot]
           /\ ~GetRaw(last.slot).panic
           /\ GetRaw(last.slot).addr = OldTarget
           /\ GetRaw(last.slot).addr # LastTarget
           /\ last.ret = FromRaw(kind, OldTarget)

C16_Witness ==
    /\ last.op = "replace"
    /\ ~last.ok
    /\ WasPopulated
    /\ off[last.slot] # 0
    /\ GetRaw(last.slot).addr = OldTarget

\* C17: get_raw never aborts.  For every offset type, the offset of a live
\* record, written by new, set_raw, replace, take or clone_into, converts
\* back to a pointer-width signed integer: to_isize().unwrap() succeeds.
C17_GetRawNeverAborts ==
    \A r \in Slots :
        (st[r] = "live" /\ origin[r] # "none")
            => /\ ToIsize(ity, off[r]).some
               /\ ~GetRaw(r).panic

C17_Witness ==
    /\ ity \in {"iwide", "uwide"}
    /\ last.op \in {"set_raw", "replace", "clone_into"}
    /\ last.ok
    /\ off[last.slot] # 0
    /\ GetRaw(last.slot).addr = LastTarget

\* C18: cloning does not disturb the source.  clone_into_raw and
\* clone_from_raw, into a record that new() created or take() emptied, leave
\* the offset and the state of the source as they were and do not release
\* the target of the source, whether they succeed or fail.
C18_CloneKeepsSource ==
    ( /\ last.op = "clone_into_raw"
      /\ WasEmpty
      /\ last.prevSt[last.src] = "live"
      /\ last.prevOrigin[last.src] = "set" )
        => /\ off[last.src] = last.prevOff[last.src]
           /\ st[last.src] = "live"
           /\ GetRaw(last.src).addr = SourceTarget
           /\ ReleasedBy(SourceTarget) = 0
====
